---- MODULE Spec2Model ----
(***************************************************************************)
(* HiFly_Drone: the PID tracker's action server (pidTracker/               *)
(* action_server.py), the SMACH client that drives it (pidTracker/         *)
(* action_client.py) and the inference node's bounded image queue          *)
(* (hifly_base/BaseInference.py).                                          *)
(*                                                                         *)
(* Every thread of the program is a pc variable; one action is one         *)
(* statement (or one run of statements that touches no shared state).      *)
(* actionlib and smach are libraries: a SimpleActionServer runs the        *)
(* execute callback in its own thread and, when the callback returns       *)
(* without a terminal status or raises, sets the goal aborted itself; a    *)
(* StateMachine follows its transition table and lets an outcome without   *)
(* a transition fall through as the container's outcome; a Concurrence     *)
(* waits for all its children and then applies outcome_map.                *)
(***************************************************************************)
EXTENDS Integers, Sequences, FiniteSets, TLC

\* ------------------------------------------------------------------ bounds
\* between two readings of time.time() in execute_init_cb 0 or TimeStep seconds
\* pass, and the readings stop growing at MaxClock seconds after the first
TimeStep == 10
MaxClock == 40
\* frames the STREAM activity publishes at most in one session
MaxPub == 2
\* ProcessVar messages delivered to process_var_sub_cb in one session
MaxMsgs == 2
\* images delivered to image_callback
MaxFrames == 8
\* ProcessVar messages delivered between the ticks of the control loop
MaxSamples == 2
\* times the client enters CON
MaxRounds == 4

\* ------------------------------------------------------- program constants
\* action_server.py:108  `if now - start_time > 30`
ConnectDeadline == 30
\* BaseInference.py:40   Queue(maxsize=5)
maxsize == 5

\* the three SimpleActionServers of PIDActionServer.__init__
SAS == {"_init_sas", "_con_publish_sas", "_con_pid_sas"}

Range(s) == {s[i] : i \in 1..Len(s)}

Outcomes == {"succeeded", "aborted", "preempted"}

VARIABLES
    \* ---- action server (PIDActionServer)
    _uav,           \* self._uav: "None" or "Tello"
    initPc,         \* position of the thread running execute_init_cb
    start_time,     \* local of execute_init_cb: time.time() at line 98
    now,            \* local of execute_init_cb: time.time() at line 101
    streamPc,       \* position of the thread running execute_start_stream_cb
    pub_counter,    \* local of execute_start_stream_cb
    mainPc,         \* position of the thread running execute_main_cb
    yaw_velocity, up_down_velocity, forward_backward_velocity,
                    \* locals of execute_track_cb
    _is_search, _x_err, _y_err, _prev_x_err, _prev_y_err,
    _area,          \* <<>> until line 90 first creates the attribute, then <<area>>
    cbPc,           \* position of the subscriber thread in process_var_sub_cb
    msg,            \* the ProcessVar message being handled
    msgCount,       \* messages delivered so far
    preemptReq,     \* [SAS -> BOOLEAN]: is_preempt_requested() of each server
    calls,          \* [SAS -> Seq(Outcomes)]: set_* calls made for the current goal
    streamon_calls, \* number of self._uav.streamon() calls
    \* ---- client (action_client.py)
    smState,        \* active state of sm, or its outcome once it has ended
    \* ---- inference node (BaseInferenceNode)
    image_queue,    \* self.image_queue, a Queue(maxsize=5): the frames it holds
    imagePc,        \* position of the subscriber thread in image_callback
    imgmsg,         \* the frame image_callback is handling (frames are numbered)
    runPc,          \* position of the thread in run
    image,          \* local of run: the frame taken from the queue
    framesSent,     \* frames delivered to image_callback so far
    \* ---- observation (history) variables, read by no action guard
    hist

\* the variables of each thread, for UNCHANGED
initVars == <<initPc, start_time, now>>
streamVars == <<streamPc, pub_counter>>
driverVars == <<_uav, streamon_calls>>
trackLocals == <<yaw_velocity, up_down_velocity, forward_backward_velocity>>
mainVars == <<mainPc, trackLocals>>
feedbackVars == <<_is_search, _x_err, _y_err, _prev_x_err, _prev_y_err, _area>>
handlerVars == <<cbPc, msg, msgCount>>

queueVars == <<image_queue, imagePc, imgmsg, runPc, image, framesSent>>

vars == <<driverVars, initVars, streamVars, mainVars, feedbackVars, handlerVars,
          preemptReq, calls, smState, queueVars, hist>>

\* ----------------------------------------------------------------- helpers
Report(s, o) == calls' = [calls EXCEPT ![s] = Append(@, o)]

Note(f, v) == hist' = [hist EXCEPT ![f] = v]

\* The goal's terminal status is the first set_* call: actionlib refuses a second
\* transition of a goal that is already terminal.
Status(s) == IF calls[s] = <<>> THEN "active" ELSE Head(calls[s])

\* SimpleActionServer.executeLoop after the execute callback ended: an exception
\* sets the goal aborted, and so does a return that left the goal active.
ExecuteLoopEnd(s, pc) ==
    IF pc = "raised" \/ calls[s] = <<>>
    THEN Report(s, "aborted")
    ELSE UNCHANGED calls

\* ProcessVar messages of the /pid_fd/process_vars topic: no detection; a small,
\* off-centre box; a box inside the area band; a box that is too large
Msgs == { [area |-> 0, cx |-> 0, cy |-> 0],
          [area |-> 10000, cx |-> 500, cy |-> 360],
          [area |-> 150000, cx |-> 480, cy |-> 300] }

NoMsg == [area |-> 0, cx |-> 0, cy |-> 0]

\* ProcessVar messages at and next to the edges of the area band, with a centre
\* on, next to, and far from the setpoint on either side
Samples == { [area |-> 0, cx |-> 0, cy |-> 0],
             [area |-> 19999, cx |-> 481, cy |-> 359],
             [area |-> 20000, cx |-> 480, cy |-> 360],
             [area |-> 20001, cx |-> 500, cy |-> 300],
             [area |-> 60000, cx |-> 5480, cy |-> -4640],
             [area |-> 99999, cx |-> -4520, cy |-> 5360],
             [area |-> 100000, cx |-> 813, cy |-> 355],
             [area |-> 100001, cx |-> 147, cy |-> 365] }

\* __init__, lines 44-46
setpoint_area == <<20000, 100000>>
setpoint_center == <<480, 360>>

Init ==
    /\ _uav = "None"
    /\ initPc = "idle"
    /\ start_time = 0
    /\ now = 0
    /\ streamPc = "idle"
    /\ pub_counter = 0
    /\ mainPc = "idle"
    /\ preemptReq = [s \in SAS |-> FALSE]
    /\ calls = [s \in SAS |-> <<>>]
    /\ streamon_calls = 0
    /\ smState = "INIT"
    /\ yaw_velocity = 0 /\ up_down_velocity = 0 /\ forward_backward_velocity = 0
    /\ _is_search = TRUE
    /\ _x_err = 0 /\ _y_err = 0
    /\ _prev_x_err = 0 /\ _prev_y_err = 0
    /\ _area = <<>>
    /\ cbPc = "idle"
    /\ msg = NoMsg
    /\ msgCount = 0
    /\ image_queue = <<>>
    /\ imagePc = "idle"
    /\ imgmsg = 0
    /\ runPc = "while"
    /\ image = 0
    /\ framesSent = 0
    /\ hist = [preemptSeen |-> FALSE, deadlineSeen |-> FALSE, noneSeen |-> FALSE,
               PUBLISH |-> "none", CONTROL_MOTOR |-> "none", CON |-> "none", rounds |-> 0,
               dropped |-> {}, accepted |-> <<>>, consumed |-> <<>>]

\* ------------------------------------------------- client: action_client.py
\* Concurrence(outcomes, default_outcome='succeeded',
\*             outcome_map={'aborted': {'PUBLISH': 'aborted'}})
sm_concurrent(PUBLISH, CONTROL_MOTOR) ==
    IF PUBLISH = "aborted" THEN "aborted" ELSE "succeeded"

\* the transition tables of sm with 'aborted':'CON' and 'preempted':'CON' added
\* to CONNECT (line 16)
sm_transitions_CON_always(state, outcome) ==
    CASE state = "CONNECT" -> "CON"
      [] state = "CON" /\ outcome = "succeeded" -> "CON"
      [] state = "CON" /\ outcome = "aborted" -> "aborted"
      [] OTHER -> outcome

\* the transition tables of sm; an outcome without an entry falls through as
\* the outcome of sm
sm_transitions(state, outcome) ==
    CASE state = "CONNECT" /\ outcome = "succeeded" -> "CON"
      [] state = "CON" /\ outcome = "succeeded" -> "CON"
      [] state = "CON" /\ outcome = "aborted" -> "aborted"
      [] OTHER -> outcome

\* sm.execute(): the initial state CONNECT sends its goal to 'init_drone'
sm_execute ==
    /\ smState = "INIT"
    /\ smState' = "CONNECT"
    /\ initPc' = "start"
    /\ UNCHANGED <<driverVars, start_time, now, streamVars, mainVars, feedbackVars,
                   handlerVars, preemptReq, calls, hist,
                   queueVars>>

\* entering CON sends one goal to 'mode_switcher' and one to 'controller'
StartCON ==
    /\ streamPc' = "start"
    /\ mainPc' = "start"
    /\ calls' = [calls EXCEPT !["_con_publish_sas"] = <<>>, !["_con_pid_sas"] = <<>>]
    /\ preemptReq' = [preemptReq EXCEPT !["_con_publish_sas"] = FALSE,
                                        !["_con_pid_sas"] = FALSE]

\* lines 13-16: CONNECT ends with the status of its goal
CONNECT_done ==
    /\ smState = "CONNECT"
    /\ Status("_init_sas") # "active"
    /\ smState' = sm_transitions("CONNECT", Status("_init_sas"))
    /\ IF smState' = "CON"
       THEN StartCON /\ hist' = [hist EXCEPT !.rounds = 1]
       ELSE UNCHANGED <<streamPc, mainPc, calls, preemptReq, hist>>
    /\ UNCHANGED <<driverVars, initVars, pub_counter, trackLocals, feedbackVars,
                   handlerVars, queueVars>>

\* lines 27-29 and 45-52: CON ends when both children have ended
CON_done ==
    /\ smState = "CON"
    /\ Status("_con_publish_sas") # "active"
    /\ Status("_con_pid_sas") # "active"
    /\ LET PUBLISH == Status("_con_publish_sas")
           CONTROL_MOTOR == Status("_con_pid_sas")
           outcome == sm_concurrent(PUBLISH, CONTROL_MOTOR)
       IN  /\ smState' = sm_transitions("CON", outcome)
           /\ smState' = "CON" => hist.rounds < MaxRounds
           /\ hist' = [hist EXCEPT !.PUBLISH = PUBLISH, !.CONTROL_MOTOR = CONTROL_MOTOR,
                                   !.CON = outcome,
                                   !.rounds = IF smState' = "CON" THEN @ + 1 ELSE @]
    /\ IF smState' = "CON"
       THEN StartCON
       ELSE UNCHANGED <<streamPc, mainPc, calls, preemptReq>>
    /\ UNCHANGED <<driverVars, initVars, pub_counter, trackLocals, feedbackVars,
                   handlerVars, queueVars>>

\* lines 14, 46, 47: what the client sees of a server, whatever the server is:
\* the goal of a SimpleActionState ends with one of the three statuses
goal_result ==
    /\ \E s \in SAS, o \in Outcomes :
         /\ calls[s] = <<>>
         /\ CASE s = "_init_sas" -> initPc = "start" /\ initPc' = "idle"
                                    /\ UNCHANGED <<streamPc, mainPc>>
              [] s = "_con_publish_sas" -> streamPc = "start" /\ streamPc' = "idle"
                                           /\ UNCHANGED <<initPc, mainPc>>
              [] s = "_con_pid_sas" -> mainPc = "start" /\ mainPc' = "idle"
                                       /\ UNCHANGED <<initPc, streamPc>>
         /\ Report(s, o)
    /\ UNCHANGED <<driverVars, start_time, now, pub_counter, trackLocals, feedbackVars,
                   handlerVars, preemptReq, smState, queueVars, hist>>

\* ------------------------------------- action_server.py: execute_init_cb
\* time.time(): a reading is never before the previous one. Only differences of
\* readings are used, so the reading of line 98 is taken as 0.
time_time(previous) ==
    {t \in {previous, previous + TimeStep} : t <= MaxClock}

\* line 98
init_start ==
    /\ initPc = "start"
    /\ start_time' = 0
    /\ initPc' = "while"
    /\ UNCHANGED <<driverVars, now, streamVars, mainVars, feedbackVars, handlerVars,
                   preemptReq, calls, smState, hist,
                   queueVars>>

\* lines 100-101
init_while ==
    /\ initPc = "while"
    /\ IF _uav = "None"
       THEN /\ \E t \in time_time(now) : now' = t
            /\ initPc' = "preempt_check"
       ELSE now' = now /\ initPc' = "returned"
    /\ UNCHANGED <<driverVars, start_time, streamVars, mainVars, feedbackVars,
                   handlerVars, preemptReq, calls, smState, hist,
                   queueVars>>

\* lines 104-105 as they would run if self._action_name were an attribute:
\* set_preempted(), then on to the deadline check
init_preempt_requested_logged ==
    /\ Report("_init_sas", "preempted")
    /\ initPc' = "deadline_check"

\* lines 104-105: the f-string reads self._action_name, which __init__ never sets
\* (it sets self.app_name): AttributeError, raised before set_preempted()
init_preempt_requested ==
    /\ initPc' = "raised"
    /\ UNCHANGED calls

\* lines 103-105
init_preempt_check ==
    /\ initPc = "preempt_check"
    /\ IF preemptReq["_init_sas"]
       THEN init_preempt_requested /\ Note("preemptSeen", TRUE)
       ELSE initPc' = "deadline_check" /\ UNCHANGED <<calls, hist>>
    /\ UNCHANGED <<driverVars, start_time, now, streamVars, mainVars, feedbackVars,
                   handlerVars, preemptReq, smState,
                   queueVars>>

\* lines 109-110 as they would run if self._action_name were an attribute:
\* set_aborted(), then on to the connect attempt
init_deadline_exceeded_logged ==
    /\ Report("_init_sas", "aborted")
    /\ initPc' = "connect"

\* lines 109-110: the f-string raises AttributeError before set_aborted()
init_deadline_exceeded ==
    /\ initPc' = "raised"
    /\ UNCHANGED calls

\* lines 108-110
init_deadline_check ==
    /\ initPc = "deadline_check"
    /\ IF now - start_time > ConnectDeadline
       THEN init_deadline_exceeded /\ Note("deadlineSeen", TRUE)
       ELSE initPc' = "connect" /\ UNCHANGED <<calls, hist>>
    /\ UNCHANGED <<driverVars, start_time, now, streamVars, mainVars, feedbackVars,
                   handlerVars, preemptReq, smState,
                   queueVars>>

\* what connect_uav() (ros_atlas.utils.uav_utils) can do: return a vehicle,
\* return None, or raise
ConnectResults == {"Tello", "None", "raise"}

\* lines 111-120
\* lines 111-117 without line 115: the stream is never switched on
init_connect_no_streamon ==
    /\ initPc = "connect"
    /\ \E r \in ConnectResults :
         CASE r = "Tello" ->
                /\ _uav' = "Tello"
                /\ streamon_calls' = streamon_calls
                /\ Report("_init_sas", "succeeded")
                /\ initPc' = "while"
           [] r = "None" ->
                /\ initPc' = "while"
                /\ UNCHANGED <<driverVars, calls>>
           [] r = "raise" ->
                /\ initPc' = "raised"
                /\ UNCHANGED <<driverVars, calls>>
    /\ UNCHANGED <<start_time, now, streamVars, mainVars, feedbackVars, handlerVars,
                   preemptReq, smState, hist,
                   queueVars>>

\* lines 111-117
init_connect ==
    /\ initPc = "connect"
    /\ \E r \in ConnectResults :
         CASE r = "Tello" ->
                /\ _uav' = "Tello"
                /\ streamon_calls' = streamon_calls + 1
                /\ Report("_init_sas", "succeeded")
                /\ initPc' = "while"
           [] r = "None" ->
                /\ initPc' = "while"
                /\ UNCHANGED <<driverVars, calls>>
           [] r = "raise" ->
                /\ initPc' = "raised"
                /\ UNCHANGED <<driverVars, calls>>
    /\ UNCHANGED <<start_time, now, streamVars, mainVars, feedbackVars, handlerVars,
                   preemptReq, smState, hist,
                   queueVars>>

\* line 38: the SimpleActionServer's thread after execute_init_cb ended
init_end ==
    /\ initPc \in {"returned", "raised"}
    /\ ExecuteLoopEnd("_init_sas", initPc)
    /\ initPc' = "idle"
    /\ UNCHANGED <<driverVars, start_time, now, streamVars, mainVars, feedbackVars,
                   handlerVars, preemptReq, smState, hist,
                   queueVars>>

\* ------------------------------ action_server.py: execute_start_stream_cb
\* what self._uav.get_frame_read().frame can be
Frames == {"frame", "None"}

\* line 123
stream_start ==
    /\ streamPc = "start"
    /\ pub_counter' = 0
    /\ streamPc' = "while"
    /\ UNCHANGED <<driverVars, initVars, mainVars, feedbackVars, handlerVars,
                   preemptReq, calls, smState, hist,
                   queueVars>>

\* line 124 (ROS is up: rospy.is_shutdown() is False)
stream_while ==
    /\ streamPc = "while"
    /\ streamPc' = "get_frame"
    /\ UNCHANGED <<driverVars, initVars, pub_counter, mainVars, feedbackVars,
                   handlerVars, preemptReq, calls, smState, hist,
                   queueVars>>

\* lines 126-128 with `continue` in the place of `break`: the read is retried
stream_frame_none_retry ==
    /\ streamPc' = "while"

\* lines 126-128: a missing frame breaks out of the loop
stream_frame_none ==
    /\ streamPc' = "returned"

\* lines 125-128
stream_get_frame ==
    /\ streamPc = "get_frame"
    /\ IF _uav = "None"
       THEN streamPc' = "raised" /\ UNCHANGED hist
       ELSE \E image_data \in Frames :
              /\ image_data = "frame" => pub_counter < MaxPub
              /\ IF image_data = "None"
                 THEN stream_frame_none /\ Note("noneSeen", TRUE)
                 ELSE streamPc' = "publish" /\ UNCHANGED hist
    /\ UNCHANGED <<driverVars, initVars, pub_counter, mainVars, feedbackVars,
                   handlerVars, preemptReq, calls, smState,
                   queueVars>>

\* lines 130-148: convert, publish, sleep; a CvBridgeError, a
\* ROSSerializationException or a ROSException is raised again
stream_publish ==
    /\ streamPc = "publish"
    /\ \E ok \in BOOLEAN :
         IF ok
         THEN pub_counter' = pub_counter + 1 /\ streamPc' = "while"
         ELSE pub_counter' = pub_counter /\ streamPc' = "raised"
    /\ UNCHANGED <<driverVars, initVars, mainVars, feedbackVars, handlerVars,
                   preemptReq, calls, smState, hist,
                   queueVars>>

\* line 39: the SimpleActionServer's thread after execute_start_stream_cb ended
stream_end ==
    /\ streamPc \in {"returned", "raised"}
    /\ ExecuteLoopEnd("_con_publish_sas", streamPc)
    /\ streamPc' = "idle"
    /\ UNCHANGED <<driverVars, initVars, pub_counter, mainVars, feedbackVars,
                   handlerVars, preemptReq, smState, hist,
                   queueVars>>

\* ---------------------------------------- action_server.py: the control loop
\* int(x) of a value given in tenths: truncation toward zero
Int10(v10) == IF v10 >= 0 THEN v10 \div 10 ELSE -((-v10) \div 10)

\* np.clip(v, lo, hi) of a value given in tenths
\* lines 169, 174 without np.clip
NoClip10(v10, lo, hi) == v10

Clip10(v10, lo, hi) ==
    IF v10 < lo * 10 THEN lo * 10 ELSE IF v10 > hi * 10 THEN hi * 10 ELSE v10

\* line 72, pid_input = [0.1, 0.1, 0.1]; the result in tenths
pid(error, prev_error) == error + (error - prev_error) + (error - prev_error)

MainStep(to) ==
    /\ mainPc' = to
    /\ UNCHANGED <<driverVars, initVars, streamVars, feedbackVars, handlerVars,
                   preemptReq, calls, smState, hist,
                   queueVars>>

\* lines 205-210 of execute_main_cb
main_while ==
    /\ mainPc \in {"start", "while"}
    /\ MainStep(IF _is_search THEN "search_test" ELSE "track_test")
    /\ UNCHANGED trackLocals

\* line 152 of execute_search_cb
search_test ==
    /\ mainPc = "search_test"
    /\ MainStep(IF _is_search THEN "search_pass" ELSE "while")
    /\ UNCHANGED trackLocals

\* line 154
search_pass ==
    /\ mainPc = "search_pass"
    /\ MainStep("search_test")
    /\ UNCHANGED trackLocals

\* lines 159-163 of execute_track_cb
track_test ==
    /\ mainPc = "track_test"
    /\ IF ~_is_search
       THEN /\ MainStep("x_test")
            /\ yaw_velocity' = 0
            /\ up_down_velocity' = 0
            /\ forward_backward_velocity' = 0
       ELSE MainStep("while") /\ UNCHANGED trackLocals

\* line 167
track_x_test ==
    /\ mainPc = "x_test"
    /\ MainStep(IF _x_err # 0 THEN "x_pid" ELSE "y_test")
    /\ UNCHANGED trackLocals

\* lines 168-169
track_x_pid ==
    /\ mainPc = "x_pid"
    /\ MainStep("y_test")
    /\ yaw_velocity' = Int10(Clip10(pid(_x_err, _prev_x_err), -100, 100))
    /\ UNCHANGED <<up_down_velocity, forward_backward_velocity>>

\* line 172
track_y_test ==
    /\ mainPc = "y_test"
    /\ MainStep(IF _y_err # 0 THEN "y_pid" ELSE "area_in_low")
    /\ UNCHANGED trackLocals

\* lines 173-174
track_y_pid ==
    /\ mainPc = "y_pid"
    /\ MainStep("area_in_low")
    /\ up_down_velocity' = Int10(Clip10(3 * pid(_y_err, _prev_y_err), -50, 50))
    /\ UNCHANGED <<yaw_velocity, forward_backward_velocity>>

\* line 177, left operand: self._area > self.setpoint_area[0]; reading the
\* attribute before line 90 ever ran raises AttributeError
track_area_in_low ==
    /\ mainPc = "area_in_low"
    /\ MainStep(IF _area = <<>> THEN "raised"
                ELSE IF _area[1] > setpoint_area[1] THEN "area_in_high"
                ELSE "area_below")
    /\ UNCHANGED trackLocals

\* lines 177-178, right operand: self._area < self.setpoint_area[1]
track_area_in_high ==
    /\ mainPc = "area_in_high"
    /\ IF _area[1] < setpoint_area[2]
       THEN /\ MainStep("log")
            /\ forward_backward_velocity' = 0
            /\ UNCHANGED <<yaw_velocity, up_down_velocity>>
       ELSE MainStep("area_below") /\ UNCHANGED trackLocals

\* lines 179-180 with `<=` for `<`
track_area_below_or_equal ==
    /\ mainPc = "area_below"
    /\ IF _area[1] <= setpoint_area[1]
       THEN /\ MainStep("log")
            /\ forward_backward_velocity' = 20
            /\ UNCHANGED <<yaw_velocity, up_down_velocity>>
       ELSE MainStep("area_above") /\ UNCHANGED trackLocals

\* lines 179-180
track_area_below ==
    /\ mainPc = "area_below"
    /\ IF _area[1] < setpoint_area[1]
       THEN /\ MainStep("log")
            /\ forward_backward_velocity' = 20
            /\ UNCHANGED <<yaw_velocity, up_down_velocity>>
       ELSE MainStep("area_above") /\ UNCHANGED trackLocals

\* lines 181-182
track_area_above ==
    /\ mainPc = "area_above"
    /\ MainStep("log")
    /\ IF _area[1] > setpoint_area[2]
       THEN /\ forward_backward_velocity' = -20
            /\ UNCHANGED <<yaw_velocity, up_down_velocity>>
       ELSE UNCHANGED trackLocals

\* line 197 followed by the loop body again, without the test of line 159
track_log_no_test ==
    /\ mainPc = "log"
    /\ MainStep("x_test")
    /\ yaw_velocity' = 0
    /\ up_down_velocity' = 0
    /\ forward_backward_velocity' = 0

\* line 197: the tick's command is logged
track_log ==
    /\ mainPc = "log"
    /\ MainStep("track_test")
    /\ UNCHANGED trackLocals

\* line 40: the SimpleActionServer's thread after execute_main_cb ended
main_end ==
    /\ mainPc \in {"returned", "raised"}
    /\ ExecuteLoopEnd("_con_pid_sas", mainPc)
    /\ mainPc' = "idle"
    /\ UNCHANGED <<driverVars, initVars, streamVars, trackLocals, feedbackVars,
                   handlerVars, preemptReq, smState, hist,
                   queueVars>>

\* ------------------------------- action_server.py: process_var_sub_cb
CbStep(to) ==
    /\ cbPc' = to
    /\ UNCHANGED <<driverVars, initVars, streamVars, mainVars, preemptReq, calls,
                   smState, hist,
                   queueVars>>

\* line 58: the subscriber's thread calls process_var_sub_cb(msg)
process_var_sub_cb ==
    /\ cbPc = "idle"
    /\ msgCount < MaxMsgs
    /\ \E m \in Msgs : msg' = m
    /\ msgCount' = msgCount + 1
    /\ CbStep("test")
    /\ UNCHANGED feedbackVars

\* line 58, with the messages drawn from Samples
process_var_sub_cb_samples ==
    /\ cbPc = "idle"
    /\ msgCount < MaxSamples
    /\ \E m \in Samples : msg' = m
    /\ msgCount' = msgCount + 1
    /\ CbStep("test")
    /\ UNCHANGED feedbackVars

\* line 83
cb_test ==
    /\ cbPc = "test"
    /\ CbStep(IF msg.area = 0 THEN "l84" ELSE "l89")
    /\ UNCHANGED <<feedbackVars, msg, msgCount>>

\* line 84
cb_search_flag ==
    /\ cbPc = "l84"
    /\ CbStep("l85")
    /\ _is_search' = TRUE
    /\ UNCHANGED <<_x_err, _y_err, _prev_x_err, _prev_y_err, _area, msg, msgCount>>

\* line 85
cb_search_x ==
    /\ cbPc = "l85"
    /\ CbStep("l86")
    /\ _x_err' = _prev_x_err
    /\ UNCHANGED <<_is_search, _y_err, _prev_x_err, _prev_y_err, _area, msg, msgCount>>

\* lines 86-87
cb_search_y ==
    /\ cbPc = "l86"
    /\ CbStep("idle")
    /\ _y_err' = _prev_y_err
    /\ msg' = NoMsg
    /\ UNCHANGED <<_is_search, _x_err, _prev_x_err, _prev_y_err, _area, msgCount>>

\* line 89
cb_track_flag ==
    /\ cbPc = "l89"
    /\ CbStep("l90")
    /\ _is_search' = FALSE
    /\ UNCHANGED <<_x_err, _y_err, _prev_x_err, _prev_y_err, _area, msg, msgCount>>

\* line 90
cb_track_area ==
    /\ cbPc = "l90"
    /\ CbStep("l91")
    /\ _area' = <<msg.area>>
    /\ UNCHANGED <<_is_search, _x_err, _y_err, _prev_x_err, _prev_y_err, msg, msgCount>>

\* line 91
cb_track_x ==
    /\ cbPc = "l91"
    /\ CbStep("l92")
    /\ _x_err' = msg.cx - setpoint_center[1]
    /\ UNCHANGED <<_is_search, _y_err, _prev_x_err, _prev_y_err, _area, msg, msgCount>>

\* lines 92-93 with the operands of line 92 exchanged
cb_track_y_exchanged ==
    /\ cbPc = "l92"
    /\ CbStep("idle")
    /\ _y_err' = msg.cy - setpoint_center[2]
    /\ msg' = NoMsg
    /\ UNCHANGED <<_is_search, _x_err, _prev_x_err, _prev_y_err, _area, msgCount>>

\* lines 92-93
cb_track_y ==
    /\ cbPc = "l92"
    /\ CbStep("idle")
    /\ _y_err' = setpoint_center[2] - msg.cy
    /\ msg' = NoMsg
    /\ UNCHANGED <<_is_search, _x_err, _prev_x_err, _prev_y_err, _area, msgCount>>

\* lines 83-92 run from the call to the return with no other thread in between,
\* on the fields fb
process_var_sub_cb_result(fb, m) ==
    IF m.area = 0
    THEN [fb EXCEPT !._is_search = TRUE, !._x_err = fb._prev_x_err,
                    !._y_err = fb._prev_y_err]
    ELSE [fb EXCEPT !._is_search = FALSE, !._area = <<m.area>>,
                    !._x_err = m.cx - setpoint_center[1],
                    !._y_err = setpoint_center[2] - m.cy]

\* lines 160-182 run on the fields fb with no other thread in between: the
\* command <<yaw_velocity, up_down_velocity, forward_backward_velocity>>
execute_track_cb_command(fb) ==
    << IF fb._x_err # 0 THEN Int10(Clip10(pid(fb._x_err, fb._prev_x_err), -100, 100))
       ELSE 0,
       IF fb._y_err # 0 THEN Int10(Clip10(3 * pid(fb._y_err, fb._prev_y_err), -50, 50))
       ELSE 0,
       IF fb._area[1] > setpoint_area[1] /\ fb._area[1] < setpoint_area[2] THEN 0
       ELSE IF fb._area[1] < setpoint_area[1] THEN 20
       ELSE IF fb._area[1] > setpoint_area[2] THEN -20 ELSE 0 >>

\* the fields after __init__ (lines 47-50), and after up to n messages of Msgs
\* each handled from call to return
RECURSIVE FeedbackAfter(_)
FeedbackAfter(n) ==
    IF n = 0
    THEN { [_is_search |-> TRUE, _x_err |-> 0, _y_err |-> 0,
            _prev_x_err |-> 0, _prev_y_err |-> 0, _area |-> <<>>] }
    ELSE LET S == FeedbackAfter(n - 1)
         IN  S \cup { process_var_sub_cb_result(fb, m) : fb \in S, m \in Msgs }

\* ------------------------------------------------------------ environment
\* the goals the client has sent and whose callback is still in its loop
Running(s) ==
    /\ Status(s) = "active"
    /\ CASE s = "_init_sas" -> initPc \notin {"idle", "returned", "raised"}
         [] s = "_con_publish_sas" -> streamPc \notin {"idle", "returned", "raised"}
         [] s = "_con_pid_sas" -> mainPc \notin {"idle", "returned", "raised"}

\* a preempt of the session: smach forwards it to the active state, a Concurrence
\* to all its children, and each SimpleActionState cancels its goal, which sets
\* is_preempt_requested() of the server that runs it
request_preempt ==
    /\ \E s \in SAS : Running(s) /\ ~preemptReq[s]
    /\ preemptReq' = [s \in SAS |-> preemptReq[s] \/ Running(s)]
    /\ UNCHANGED <<driverVars, initVars, streamVars, mainVars, feedbackVars,
                   handlerVars, calls, smState, hist,
                   queueVars>>

\* --------------------------------------- BaseInference.py: the image queue
\* queue.Queue.full() of a Queue() built without maxsize: never full
Queue_never_full(q) == FALSE

\* queue.Queue.full(): 0 < maxsize <= qsize
Queue_full(q) == 0 < maxsize /\ maxsize <= Len(q)

\* queue.Queue.empty()
Queue_empty(q) == Len(q) = 0

QueueStep(vs) == UNCHANGED <<driverVars, initVars, streamVars, mainVars, feedbackVars,
                             handlerVars, preemptReq, calls, smState, vs>>

\* line 61: the subscriber's thread calls image_callback(imgmsg); frames are
\* numbered in the order they arrive
image_callback ==
    /\ imagePc = "idle"
    /\ framesSent < MaxFrames
    /\ framesSent' = framesSent + 1
    /\ imgmsg' = framesSent + 1
    /\ imagePc' = "convert"
    /\ QueueStep(<<image_queue, runPc, image, hist>>)

\* lines 80-81, 84-85: imgmsg_to_cv2; a CvBridgeError is raised again and the
\* callback ends without the frame
image_convert ==
    /\ imagePc = "convert"
    /\ \E ok \in BOOLEAN :
         IF ok THEN imagePc' = "full" /\ imgmsg' = imgmsg
               ELSE imagePc' = "idle" /\ imgmsg' = 0
    /\ QueueStep(<<image_queue, runPc, image, framesSent, hist>>)

\* line 83 without the test of line 82: every frame goes to put
image_full_unchecked ==
    /\ imagePc = "full"
    /\ imagePc' = "put"
    /\ UNCHANGED <<imgmsg, hist>>
    /\ QueueStep(<<image_queue, runPc, image, framesSent>>)

\* line 82
image_full ==
    /\ imagePc = "full"
    /\ IF ~Queue_full(image_queue)
       THEN imagePc' = "put" /\ UNCHANGED <<imgmsg, hist>>
       ELSE /\ imagePc' = "idle"
            /\ imgmsg' = 0
            /\ hist' = [hist EXCEPT !.dropped = @ \cup {imgmsg}]
    /\ QueueStep(<<image_queue, runPc, image, framesSent>>)

\* line 83: Queue.put blocks while the queue is full
image_put ==
    /\ imagePc = "put"
    /\ ~Queue_full(image_queue)
    /\ image_queue' = Append(image_queue, imgmsg)
    /\ imagePc' = "idle"
    /\ imgmsg' = 0
    /\ hist' = [hist EXCEPT !.accepted = Append(@, imgmsg)]
    /\ QueueStep(<<runPc, image, framesSent>>)

\* lines 94-96, 108-110 (ROS is up: rospy.is_shutdown() is False)
run_empty ==
    /\ runPc = "while"
    /\ runPc' = IF ~Queue_empty(image_queue) THEN "get" ELSE "log_empty"
    /\ QueueStep(<<image_queue, imagePc, imgmsg, image, framesSent, hist>>)

\* lines 109-110
run_log_empty ==
    /\ runPc = "log_empty"
    /\ runPc' = "while"
    /\ QueueStep(<<image_queue, imagePc, imgmsg, image, framesSent, hist>>)

\* line 97 on a queue.LifoQueue: get takes the newest item
run_get_newest ==
    /\ runPc = "get"
    /\ ~Queue_empty(image_queue)
    /\ image' = image_queue[Len(image_queue)]
    /\ image_queue' = SubSeq(image_queue, 1, Len(image_queue) - 1)
    /\ runPc' = "process"
    /\ hist' = [hist EXCEPT !.consumed = Append(@, image_queue[Len(image_queue)])]
    /\ QueueStep(<<imagePc, imgmsg, framesSent>>)

\* line 97: Queue.get blocks while the queue is empty
run_get ==
    /\ runPc = "get"
    /\ ~Queue_empty(image_queue)
    /\ image' = Head(image_queue)
    /\ image_queue' = Tail(image_queue)
    /\ runPc' = "process"
    /\ hist' = [hist EXCEPT !.consumed = Append(@, Head(image_queue))]
    /\ QueueStep(<<imagePc, imgmsg, framesSent>>)

\* lines 99-107 without the loop of line 94: run returns after one frame
run_process_once ==
    /\ runPc = "process"
    /\ image' = 0
    /\ runPc' = "returned"
    /\ QueueStep(<<image_queue, imagePc, imgmsg, framesSent, hist>>)

\* lines 99-107: inference, publish, sleep
run_process ==
    /\ runPc = "process"
    /\ image' = 0
    /\ runPc' = "while"
    /\ QueueStep(<<image_queue, imagePc, imgmsg, framesSent, hist>>)

\* ------------------------------------------------------------ specifications
InitThread ==
    \/ init_start \/ init_while \/ init_preempt_check \/ init_deadline_check
    \/ init_connect \/ init_end

StreamThread ==
    \/ stream_start \/ stream_while \/ stream_get_frame \/ stream_publish \/ stream_end

MainThread ==
    \/ main_while \/ search_test \/ search_pass
    \/ track_test \/ track_x_test \/ track_x_pid \/ track_y_test \/ track_y_pid
    \/ track_area_in_low \/ track_area_in_high \/ track_area_below \/ track_area_above
    \/ track_log \/ main_end

\* process_var_sub_cb once it has been called
CallbackThread ==
    \/ cb_test \/ cb_search_flag \/ cb_search_x \/ cb_search_y
    \/ cb_track_flag \/ cb_track_area \/ cb_track_x \/ cb_track_y

Client == sm_execute \/ CONNECT_done \/ CON_done

\* the action server with the client that drives it
Next ==
    \/ sm_execute \/ CONNECT_done \/ CON_done
    \/ init_start \/ init_while \/ init_preempt_check \/ init_deadline_check
    \/ init_connect \/ init_end
    \/ stream_start \/ stream_while \/ stream_get_frame \/ stream_publish \/ stream_end
    \/ main_while \/ search_test \/ search_pass
    \/ track_test \/ track_x_test \/ track_x_pid \/ track_y_test \/ track_y_pid
    \/ track_area_in_low \/ track_area_in_high \/ track_area_below \/ track_area_above
    \/ track_log \/ main_end
    \/ process_var_sub_cb \/ cb_test \/ cb_search_flag \/ cb_search_x \/ cb_search_y
    \/ cb_track_flag \/ cb_track_area \/ cb_track_x \/ cb_track_y
    \/ request_preempt

Spec == Init /\ [][Next]_vars

\* the same, with every thread of the server and the client scheduled fairly; the
\* arrival of messages and of preempt requests is not forced
FairSpec ==
    /\ Init /\ [][Next]_vars
    /\ WF_vars(InitThread) /\ WF_vars(StreamThread) /\ WF_vars(MainThread)
    /\ WF_vars(CallbackThread) /\ WF_vars(Client)

\* the client alone, against servers that may end a goal with any status
NextClient == sm_execute \/ CONNECT_done \/ CON_done \/ goal_result

SpecClient == Init /\ [][NextClient]_vars

\* the inference node: image_callback in the subscriber's thread, run in its own
NextQueue ==
    \/ image_callback \/ image_convert \/ image_full \/ image_put
    \/ run_empty \/ run_log_empty \/ run_get \/ run_process

SpecQueue == Init /\ [][NextQueue]_vars

\* the control loop and process_var_sub_cb one at a time: a message is handled
\* from its arrival to the handler's return while the control loop is between
\* two ticks, and the loop runs while no message is being handled
BetweenTicks == {"idle", "start", "while", "search_test", "search_pass", "track_test"}

NextTick ==
    \/ sm_execute \/ CONNECT_done
    \/ init_start \/ init_while \/ init_preempt_check \/ init_deadline_check
    \/ init_connect \/ init_end
    \/ (cbPc = "idle" /\ main_while)
    \/ (cbPc = "idle" /\ search_test)
    \/ (cbPc = "idle" /\ search_pass)
    \/ (cbPc = "idle" /\ track_test)
    \/ track_x_test \/ track_x_pid \/ track_y_test \/ track_y_pid
    \/ track_area_in_low \/ track_area_in_high \/ track_area_below \/ track_area_above
    \/ track_log
    \/ (mainPc \in BetweenTicks /\ process_var_sub_cb_samples)
    \/ cb_test \/ cb_search_flag \/ cb_search_x \/ cb_search_y
    \/ cb_track_flag \/ cb_track_area \/ cb_track_x \/ cb_track_y

SpecTick == Init /\ [][NextTick]_vars

RunThread == run_empty \/ run_log_empty \/ run_get \/ run_process

\* the same, with the run thread scheduled fairly; the arrival of frames is not forced
FairQueue == Init /\ [][NextQueue]_vars /\ WF_vars(RunThread)

\* ================================================================ properties

\* C1: when a preempt request is pending at a retry iteration of execute_init_cb,
\* the activity reports preempted at that iteration, reports nothing else, and
\* goes on to neither the deadline check nor another connect attempt.
C1_PreemptEndsPreempted ==
    hist.preemptSeen =>
        /\ calls["_init_sas"] = <<"preempted">>
        /\ initPc \notin {"deadline_check", "connect"}

\* C2: when the deadline check of execute_init_cb fires (every connect attempt
\* before it returned no vehicle) and no preempt was requested, streamon() is
\* never called, succeeded is never reported, the goal ends aborted, the session
\* ends aborted and neither STREAM nor CONTROL is started.
C2_DeadlineAborts ==
    (hist.deadlineSeen /\ ~preemptReq["_init_sas"]) =>
        /\ streamon_calls = 0
        /\ _uav = "None"
        /\ calls["_init_sas"] \in {<<>>, <<"aborted">>}
        /\ initPc \in {"raised", "idle"}
        /\ initPc = "idle" => calls["_init_sas"] = <<"aborted">>
        /\ smState \in {"CONNECT", "aborted"}
        /\ smState = "aborted" => initPc = "idle"
        /\ streamPc = "idle" /\ mainPc = "idle"
        /\ hist.rounds = 0

C2_Witness ==
    /\ hist.deadlineSeen
    /\ ~preemptReq["_init_sas"]
    /\ calls["_init_sas"] = <<"aborted">>
    /\ smState = "aborted"

\* C3: for one goal of each action server, the set_preempted / set_aborted /
\* set_succeeded calls (by the callback and by the server's own thread) total at
\* most one.
C3_OneOutcome ==
    \A s \in SAS : Len(calls[s]) <= 1

C3_Witness ==
    /\ calls["_init_sas"] = <<"succeeded">>
    /\ calls["_con_publish_sas"] = <<"aborted">>
    /\ calls["_con_pid_sas"] = <<"aborted">>
    /\ smState = "aborted"

\* C4: a STREAM tick or a CONTROL tick that starts while a preempt request is
\* pending leaves the loop.
C4_PreemptLeavesLoop ==
    [][ /\ (preemptReq["_con_publish_sas"] /\ streamPc = "while" /\ streamPc' # streamPc)
            => streamPc' = "returned"
        /\ (preemptReq["_con_pid_sas"] /\ mainPc \in {"while", "search_test", "track_test"}
              /\ mainPc' # mainPc)
            => mainPc' = "returned" ]_vars

\* C5: when a preempt was requested while the CONTROL loop was running, the
\* outcome of the composite CON, once it has one, is preempted.
C5_PreemptedComposite ==
    (preemptReq["_con_pid_sas"] /\ hist.CON # "none") => hist.CON = "preempted"

\* C6: once get_frame_read().frame was None, execute_start_stream_cb is out of
\* its loop (no further read, no further publish) and its goal ends aborted.
C6_NoneFrameAborts ==
    hist.noneSeen =>
        /\ streamPc \in {"returned", "idle"}
        /\ calls["_con_publish_sas"] \in {<<>>, <<"aborted">>}
        /\ streamPc = "idle" => calls["_con_publish_sas"] = <<"aborted">>

C6_Witness ==
    /\ hist.noneSeen
    /\ pub_counter > 0
    /\ streamPc = "idle"
    /\ calls["_con_publish_sas"] = <<"aborted">>

\* C7: the outcome of CON is aborted exactly when PUBLISH or CONTROL_MOTOR ended
\* aborted, and succeeded otherwise.
C7_EitherAborts ==
    hist.CON # "none" =>
        /\ hist.CON \in {"aborted", "succeeded"}
        /\ hist.CON = "aborted" <=>
               (hist.PUBLISH = "aborted" \/ hist.CONTROL_MOTOR = "aborted")

\* C8: when STREAM has ended aborted on a missing frame while CONTROL is still
\* running, the session eventually ends aborted.
C8_StreamAbortEndsSession ==
    (hist.noneSeen /\ Status("_con_publish_sas") = "aborted" /\ Running("_con_pid_sas"))
        ~> (smState = "aborted")

\* C9: with one image_callback thread and the run thread, the put that follows a
\* passed `not full` test finds room in the queue, and a frame that meets a full
\* queue at the test is dropped and the callback returns.
C9_ProducerNeverBlocks ==
    /\ [](imagePc = "put" => Len(image_queue) < maxsize)
    /\ [][ (imagePc = "full" /\ Len(image_queue) >= maxsize /\ imagePc' # imagePc)
             => /\ imagePc' = "idle"
                /\ image_queue' = image_queue
                /\ imgmsg \in hist'.dropped ]_vars

C9_Witness ==
    /\ imagePc = "put"
    /\ Len(image_queue) = maxsize - 1
    /\ runPc = "process"
    /\ hist.dropped # {}

\* C10: the queue never holds more than maxsize frames, and a frame dropped at a
\* full queue is neither in the queue nor ever taken from it.
C10_BoundedDropOnFull ==
    /\ Len(image_queue) <= maxsize
    /\ \A f \in hist.dropped :
         /\ f \notin Range(image_queue)
         /\ f \notin Range(hist.consumed)
         /\ f # image /\ f # imgmsg

C10_Witness ==
    /\ Len(hist.consumed) > maxsize
    /\ \E d \in hist.dropped : \E i \in 1..Len(hist.consumed) : hist.consumed[i] > d

\* C11: a frame that meets fewer than maxsize queued frames at the test is put in
\* the queue, and the frames run takes, followed by the frames still queued, are
\* the accepted frames in the order they were put: none twice, none out of order.
C11_FifoOfAccepted ==
    /\ [](hist.accepted = hist.consumed \o image_queue)
    /\ [](\A i, j \in 1..Len(hist.consumed) : i < j => hist.consumed[i] < hist.consumed[j])
    /\ [][ (imagePc = "full" /\ Len(image_queue) < maxsize /\ imagePc' # imagePc)
             => imagePc' = "put" /\ imgmsg' = imgmsg ]_vars
    /\ [][ (imagePc = "put" /\ imagePc' # imagePc)
             => image_queue' = Append(image_queue, imgmsg) ]_vars

C11_Witness ==
    /\ Len(hist.consumed) >= 2
    /\ Len(image_queue) >= 2
    /\ hist.dropped # {}
    /\ image = hist.consumed[Len(hist.consumed)]

C13_NoDetectionKeepsErrors ==
    [][ /\ (cbPc = "l84" /\ cbPc' = "l85" => _is_search')
        /\ (cbPc \in {"l84", "l85", "l86"} => _x_err' = _x_err /\ _y_err' = _y_err) ]_vars

\* C14: when a tick of the track loop has computed its command, _prev_x_err and
\* _prev_y_err hold the errors the tick computed on.
C14_PrevErrUpdated ==
    [][ (mainPc = "log" /\ mainPc' = "track_test")
          => _prev_x_err' = _x_err /\ _prev_y_err' = _y_err ]_vars

\* C15: the command of a tick is the command of the fields as one message left
\* them: some sequence of messages, each handled from call to return, gives
\* fields with _is_search false from which lines 160-182 compute this command.
C15_TickOnOneUpdate ==
    mainPc = "log" =>
      \E fb \in FeedbackAfter(MaxMsgs) :
        /\ ~fb._is_search
        /\ <<yaw_velocity, up_down_velocity, forward_backward_velocity>>
             = execute_track_cb_command(fb)

\* C16: connect_uav() returning a handle ends CONNECT with succeeded, after
\* attempts that returned None have been tried again: streamon() has then been
\* called once, not later than the report, and is never called a second time;
\* an attempt that returns None reports nothing.
C16_ConnectSucceeds ==
    /\ [](streamon_calls <= 1)
    /\ [](_uav = "Tello" => streamon_calls = 1 /\ calls["_init_sas"] = <<"succeeded">>)
    /\ [](Status("_init_sas") = "succeeded" => _uav = "Tello" /\ streamon_calls = 1)
    /\ [][ (initPc = "connect" /\ initPc' = "while" /\ _uav' = "None")
             => calls' = calls /\ streamon_calls' = 0 ]_vars

C16_Witness ==
    /\ _uav = "Tello"
    /\ Status("_init_sas") = "succeeded"
    /\ now = ConnectDeadline
    /\ ~preemptReq["_init_sas"]
    /\ initPc = "while"

\* C17: the forward command of a tick is 20 for an area below the band, -20 for
\* an area above it and 0 for an area in the band, both ends of the band
\* included; the area is the one the tick read, no message being handled
\* during the tick.
C17_ForwardFromArea ==
    /\ forward_backward_velocity \in {-20, 0, 20}
    /\ mainPc = "log" =>
         forward_backward_velocity =
           IF _area[1] < setpoint_area[1] THEN 20
           ELSE IF _area[1] > setpoint_area[2] THEN -20 ELSE 0

C17_Witness ==
    /\ mainPc = "log"
    /\ _area[1] \in {setpoint_area[1], setpoint_area[2]}
    /\ forward_backward_velocity = 0
    /\ msgCount = MaxSamples

\* C18: the yaw command of a tick is an integer in -100..100 and the vertical
\* command an integer in -50..50 whatever the errors are, and a command whose
\* error is 0 is 0; lines 168-169 and 173-174 give values in these ranges for
\* any previous error as well.
C18_CommandsClamped ==
    /\ yaw_velocity \in -100..100
    /\ up_down_velocity \in -50..50
    /\ mainPc = "log" =>
         /\ (_x_err = 0 => yaw_velocity = 0)
         /\ (_y_err = 0 => up_down_velocity = 0)
    /\ LET errors == {-5000, -333, -1, 0, 1, 333, 5000}
       IN  \A e, p \in errors :
             /\ Int10(Clip10(pid(e, p), -100, 100)) \in -100..100
             /\ Int10(Clip10(3 * pid(e, p), -50, 50)) \in -50..50

C18_Witness ==
    /\ mainPc = "log"
    /\ _x_err < -1000 /\ yaw_velocity = -100
    /\ _y_err < -1000 /\ up_down_velocity = -50

\* C19: when a message with area # 0 has been handled, _is_search is false, _area
\* is the message's area, _x_err is cx - 480 and _y_err is 360 - cy, whatever the
\* fields held before.
C19_DetectionSetsFeedback ==
    [][ (cbPc = "l92" /\ cbPc' = "idle")
          => /\ ~_is_search'
             /\ _area' = <<msg.area>>
             /\ _x_err' = msg.cx - 480
             /\ _y_err' = 360 - msg.cy ]_vars

C19_Witness ==
    /\ cbPc = "idle" /\ msgCount = MaxSamples
    /\ ~_is_search
    /\ _area = <<100001>> /\ _x_err = 147 - 480 /\ _y_err = 360 - 365
    /\ yaw_velocity = 100

\* C20: every tick of the control loop follows a read of _is_search: the body of
\* the track loop is entered only from the test of line 159 that read false,
\* the body of the search loop only from the test of line 152 that read true,
\* every test sends the loop where the value it read says, the end of a tick
\* leads back to a test, and the search loop changes no command.
C20_LevelDriven ==
    [][ /\ (mainPc' = "x_test" /\ mainPc # "x_test")
             => mainPc = "track_test" /\ ~_is_search
        /\ (mainPc' = "search_pass" /\ mainPc # "search_pass")
             => mainPc = "search_test" /\ _is_search
        /\ (mainPc = "track_test" /\ mainPc' # mainPc)
             => mainPc' = IF _is_search THEN "while" ELSE "x_test"
        /\ (mainPc = "search_test" /\ mainPc' # mainPc)
             => mainPc' = IF _is_search THEN "search_pass" ELSE "while"
        /\ (mainPc = "while" /\ mainPc' # mainPc)
             => mainPc' = IF _is_search THEN "search_test" ELSE "track_test"
        /\ (mainPc = "log" /\ mainPc' # mainPc) => mainPc' = "track_test"
        /\ (mainPc = "search_pass" /\ mainPc' # mainPc) => mainPc' = "search_test"
        /\ (mainPc \in {"while", "search_test", "search_pass"}
             => trackLocals' = trackLocals) ]_vars

C20_Witness ==
    /\ mainPc = "search_pass"
    /\ _is_search
    /\ forward_backward_velocity # 0

\* C21: when a tick of the track loop is at its first read of _area (line 177),
\* process_var_sub_cb has assigned _area before.
C21_AreaWrittenBeforeRead ==
    mainPc = "area_in_low" => _area # <<>>

\* C22: when execute_init_cb has seen the deadline exceeded or a preempt request,
\* it has reported aborted or preempted itself and leaves the loop by returning:
\* it neither goes on to another attempt nor ends by an exception.
C22_ConnectReturnsAfterReport ==
    (hist.deadlineSeen \/ hist.preemptSeen) =>
        /\ calls["_init_sas"] \in {<<"aborted">>, <<"preempted">>}
        /\ initPc \in {"returned", "idle"}

\* C23: while the client runs sm, execute_start_stream_cb and execute_main_cb
\* are running or have run only if CONNECT ended succeeded, with the vehicle set
\* and streamon() called once; every read of self._uav.get_frame_read().frame
\* finds the vehicle set.
C23_StreamAfterConnect ==
    /\ []((streamPc # "idle" \/ mainPc # "idle" \/ smState = "CON")
            => /\ _uav = "Tello"
               /\ streamon_calls = 1
               /\ calls["_init_sas"] = <<"succeeded">>)
    /\ [](streamPc # "raised" \/ pub_counter > 0 \/ _uav = "Tello")
    /\ [][ (streamPc = "get_frame" /\ streamPc' # streamPc)
             => _uav = "Tello" /\ streamon_calls = 1 ]_vars

C23_Witness ==
    /\ streamPc = "get_frame"
    /\ pub_counter = MaxPub
    /\ mainPc = "log"
    /\ _uav = "Tello"
====
